---- MODULE Spec2Model ----
(***************************************************************************)
(* Model of splat_to_ply_converter.py: read_splat_file decodes a file of   *)
(* 32-byte splat records into a list of point records, write_ply_file      *)
(* serialises that list as a PLY file (ascii or binary_little_endian), and *)
(* __main__ runs the two in sequence.                                      *)
(*                                                                         *)
(* Numbers.  A 32-bit float read from the file is kept as its four bytes,  *)
(* most significant first (tag "f32").  A value the decoder computes is    *)
(* kept exactly and symbolically: "log" of an f32, the decimal literal     *)
(* -1e-6 ("dec", <<-1, 1000000>>), a rational <<num, den>> ("rat"), or the *)
(* logit of a rational probability ("logit").  A byte of the output file   *)
(* is [v, i]: byte i (0 = least significant) of the little-endian float32  *)
(* encoding of value v.                                                    *)
(***************************************************************************)
EXTENDS Integers, Sequences, FiniteSets, TLC

VARIABLES
    format,       \* args.format
    inputKind,    \* what args.input names: "absent" (None), "missing", "unreadable", "file"
    outputKind,   \* what args.output names: "absent" (None), "unwritable", "file"
    inBytes,      \* contents of the input file
    inPos,        \* read position of the input handle
    splats_data,  \* the list read_splat_file accumulates and write_ply_file consumes
    outFile,      \* the output path on disk: [exists, data], data a sequence of written chunks
    fmode,        \* mode of the output handle: "closed", "w" or "wb"
    opened,       \* whether this run has opened the output path
    wi,           \* index of the next header line / splat to write
    log,          \* the diagnostics printed so far, in order
    raised,       \* the exceptions raised so far, in order, each with the function it was raised in
    pc,           \* position of the run
    exitCode      \* exit status of the process, -1 while it runs

vars == <<format, inputKind, outputKind, inBytes, inPos, splats_data, outFile,
          fmode, opened, wi, log, raised, pc, exitCode>>

----------------------------------------------------------------------------
(* Bounds and program constants *)

MaxRecords == 2

SPLAT_BYTE_LENGTH == 32

MaxByte == 255

NumFloats == 6

\* lengths of the trailing partial record the inputs are drawn with
TrailLens == {0, 1, SPLAT_BYTE_LENGTH - 1}

\* the byte the trailing partial record is filled with
TrailByte == 7

Formats == {"ascii", "binary", "binary_little_endian"}

----------------------------------------------------------------------------
(* Rational arithmetic on pairs <<num, den>> with den > 0 *)

RatLess(p, q) == p[1] * q[2] < q[1] * p[2]

RatEq(p, q) == p[1] * q[2] = q[1] * p[2]

\* Python's min(a, b): b only when b < a
PyMin(a, b) == IF RatLess(b, a) THEN b ELSE a

\* Python's max(a, b): b only when b > a
PyMax(a, b) == IF RatLess(a, b) THEN b ELSE a

----------------------------------------------------------------------------
(* struct.unpack('< fff fff BBBB BBBB', data_bytes) *)

\* little-endian float at 0-based offset off: bytes reversed to most-significant-first
F32At(data, off) ==
    [tag |-> "f32", a |-> <<data[off + 4], data[off + 3], data[off + 2], data[off + 1]>>]

\* the 6 floats then the 8 unsigned bytes
Unpack(data) ==
    [i \in 1..14 |->
        IF i <= NumFloats THEN F32At(data, 4 * (i - 1))
        ELSE data[4 * NumFloats + (i - NumFloats)]]

\* read_scale > 0 for a float32 bit pattern: sign clear, not zero, not NaN (+inf > 0 holds)
F32Positive(b) ==
    /\ b[1] < 128
    /\ b # <<0, 0, 0, 0>>
    /\ (b[1] < 127 \/ (b[1] = 127 /\ (b[2] < 128 \/ (b[2] = 128 /\ b[3] = 0 /\ b[4] = 0))))

----------------------------------------------------------------------------
(* Field transforms *)

\* math.log(read_scale) if read_scale > 0 else -1e-6
ScaleTransform(v) ==
    IF F32Positive(v.a) THEN [tag |-> "log", a |-> v.a]
    ELSE [tag |-> "dec", a |-> <<-1, 1000000>>]

\* (c / 255.0 - 0.5) * 2.0 * 1.772196  =  (2c - 255) * 1772196 / (255 * 10^6)
ColorTransform(c) ==
    [tag |-> "rat", a |-> <<(2 * c - MaxByte) * 1772196, MaxByte * 1000000>>]

\* (q / 128.0) - 1.0
RotTransform(q) == [tag |-> "rat", a |-> <<q - 128, 128>>]

OpacityClamp_NoClamp(p) == p

\* max(0.0001, min(0.9999, opacity_float_0_1))
OpacityClamp(p) == PyMax(<<1, 10000>>, PyMin(<<9999, 10000>>, p))

\* the probability handed to the logit for opacity byte o
OpacityProb(o) == OpacityClamp(<<o, MaxByte>>)

\* what math.log(p / (1 - p)) raises: "" when it returns a value
LogitRaises(p) ==
    IF p[2] - p[1] = 0 THEN "ZeroDivisionError"
    ELSE IF p[1] * (p[2] - p[1]) <= 0 THEN "ValueError"
    ELSE ""

NoSplat == [x |-> 0]

\* lines 25-65: unpack one chunk and build splat_info; exc names the exception raised, if any
DecodeRecord(data) ==
    IF Len(data) # SPLAT_BYTE_LENGTH THEN [exc |-> "struct.error", splat |-> NoSplat]
    ELSE LET u == Unpack(data)
             p == OpacityProb(u[10])
         IN  IF LogitRaises(p) # "" THEN [exc |-> LogitRaises(p), splat |-> NoSplat]
             ELSE [exc |-> "",
                   splat |-> [x |-> u[1], y |-> u[2], z |-> u[3],
                              opacity |-> [tag |-> "logit", a |-> p],
                              rot_0 |-> RotTransform(u[11]), rot_1 |-> RotTransform(u[12]),
                              rot_2 |-> RotTransform(u[13]), rot_3 |-> RotTransform(u[14]),
                              f_dc_0 |-> ColorTransform(u[7]), f_dc_1 |-> ColorTransform(u[8]),
                              f_dc_2 |-> ColorTransform(u[9]),
                              scale_0 |-> ScaleTransform(u[4]), scale_1 |-> ScaleTransform(u[5]),
                              scale_2 |-> ScaleTransform(u[6])]]

----------------------------------------------------------------------------
(* read_splat_file *)

\* f.read(n): up to n bytes from the current position
FileRead(bytes, pos, n) ==
    SubSeq(bytes, pos + 1, IF pos + n <= Len(bytes) THEN pos + n ELSE Len(bytes))

ReadBreak_OnlyEmpty(data) == data = <<>>

\* not data_bytes or len(data_bytes) < SPLAT_BYTE_LENGTH
ReadBreak(data) == data = <<>> \/ Len(data) < SPLAT_BYTE_LENGTH

ListAppend_Front(acc, s) == <<s>> \o acc

\* splats_data.append(splat_info)
ListAppend(acc, s) == Append(acc, s)

\* the builtin exceptions the run can raise; all derive from Exception
IsException(exc) ==
    exc \in {"FileNotFoundError", "PermissionError", "OSError", "TypeError",
             "ValueError", "ZeroDivisionError", "struct.error"}

ReadHandler_NotFoundOnly(exc) ==
    IF exc = "FileNotFoundError" THEN "Error: File not found" ELSE "escape"

ReadHandler_Swapped(exc) ==
    IF IsException(exc) THEN "Unexpected error" ELSE "escape"

\* the except clauses of read_splat_file, in order; "escape" when none matches
ReadHandler(exc) ==
    IF exc = "FileNotFoundError" THEN "Error: File not found"
    ELSE IF IsException(exc) THEN "Unexpected error"
    ELSE "escape"

Diag(m, k) == [msg |-> m, n |-> k]

\* an exception inside the try of read_splat_file: print and fall through to
\* `return splats_data`, or leave the function and end the process with a traceback
ReadRaise(exc) ==
    /\ raised' = Append(raised, [fn |-> "read_splat_file", exc |-> exc])
    /\ IF ReadHandler(exc) = "escape"
       THEN /\ pc' = "crashed"
            /\ exitCode' = 1
            /\ log' = log
       ELSE /\ pc' = "write"
            /\ exitCode' = exitCode
            /\ log' = Append(log, Diag(ReadHandler(exc), 0))

\* what open(filepath, 'rb') raises for the input path; "" when it succeeds
OpenInputRaises(kind) ==
    CASE kind = "absent" -> "TypeError"
      [] kind = "missing" -> "FileNotFoundError"
      [] kind = "unreadable" -> "PermissionError"
      [] OTHER -> ""

\* read_splats = read_splat_file(args.input): splats_data = [] and the open
ReadOpen ==
    /\ pc = "start"
    /\ inPos' = 0
    /\ IF OpenInputRaises(inputKind) # ""
       THEN /\ ReadRaise(OpenInputRaises(inputKind))
            /\ splats_data' = <<>>
       ELSE /\ pc' = "read"
            /\ splats_data' = <<>>
            /\ UNCHANGED <<log, raised, exitCode>>
    /\ UNCHANGED <<format, inputKind, outputKind, inBytes, outFile, fmode, opened, wi>>

\* one iteration of the while loop whose f.read succeeds
ReadStep ==
    /\ pc = "read"
    /\ LET data == FileRead(inBytes, inPos, SPLAT_BYTE_LENGTH)
           res == DecodeRecord(data)
       IN  /\ inPos' = inPos + Len(data)
           /\ IF ReadBreak(data)
              THEN /\ pc' = "write"
                   /\ UNCHANGED <<splats_data, log, raised, exitCode>>
              ELSE IF res.exc # ""
              THEN /\ ReadRaise(res.exc)
                   /\ UNCHANGED splats_data
              ELSE /\ splats_data' = ListAppend(splats_data, res.splat)
                   /\ UNCHANGED <<pc, log, raised, exitCode>>
    /\ UNCHANGED <<format, inputKind, outputKind, inBytes, outFile, fmode, opened, wi>>

\* one iteration of the while loop whose f.read raises (an I/O error of the device)
ReadFault ==
    /\ pc = "read"
    /\ ReadRaise("OSError")
    /\ UNCHANGED <<format, inputKind, outputKind, inBytes, inPos, splats_data,
                   outFile, fmode, opened, wi>>

----------------------------------------------------------------------------
(* write_ply_file *)

IsEmptyCollection_Never(sd) == FALSE

\* not splats_data
IsEmptyCollection(sd) == sd = <<>>

\* 'w' if format == "ascii" else 'wb'
OpenMode(fmt) == IF fmt = "ascii" THEN "w" ELSE "wb"

\* what open(output_filepath, mode) raises for the output path; "" when it succeeds
OpenOutputRaises(kind) ==
    CASE kind = "absent" -> "TypeError"
      [] kind = "unwritable" -> "PermissionError"
      [] OTHER -> ""

\* the line at index 2 of header_lines
FormatLine(fmt) ==
    IF fmt = "binary" THEN "format binary_little_endian 1.0" ELSE "format ascii 1.0"

\* header_lines; the vertex count of the 'element vertex' line is kept in n
HeaderLines(fmt, n) ==
    <<[text |-> "ply", n |-> 0],
      [text |-> FormatLine(fmt), n |-> 0],
      [text |-> "element vertex", n |-> n],
      [text |-> "property float x", n |-> 0],
      [text |-> "property float y", n |-> 0],
      [text |-> "property float z", n |-> 0],
      [text |-> "property float opacity", n |-> 0],
      [text |-> "property float rot_0", n |-> 0],
      [text |-> "property float rot_1", n |-> 0],
      [text |-> "property float rot_2", n |-> 0],
      [text |-> "property float rot_3", n |-> 0],
      [text |-> "property float f_dc_0", n |-> 0],
      [text |-> "property float f_dc_1", n |-> 0],
      [text |-> "property float f_dc_2", n |-> 0],
      [text |-> "property float scale_0", n |-> 0],
      [text |-> "property float scale_1", n |-> 0],
      [text |-> "property float scale_2", n |-> 0],
      [text |-> "end_header", n |-> 0]>>

\* the 14 fields in the order both body writers use
SplatFields(s) ==
    <<s.x, s.y, s.z, s.opacity, s.rot_0, s.rot_1, s.rot_2, s.rot_3,
      s.f_dc_0, s.f_dc_1, s.f_dc_2, s.scale_0, s.scale_1, s.scale_2>>

\* struct.pack('<f', v): the four bytes of v as a float32, least significant first
PackFloat(v) == [i \in 1..4 |-> [v |-> v, i |-> i - 1]]

PackSplat_Short(s) ==
    LET fs == SplatFields(s)
    IN  [j \in 1..(4 * (Len(fs) - 1)) |-> PackFloat(fs[((j - 1) \div 4) + 1])[((j - 1) % 4) + 1]]

\* struct.pack('<3f1f4f3f3f', ...): the fields packed back to back
PackSplat(s) ==
    LET fs == SplatFields(s)
    IN  [j \in 1..(4 * Len(fs)) |-> PackFloat(fs[((j - 1) \div 4) + 1])[((j - 1) % 4) + 1]]

\* the text line of one splat: the str() of each field, space separated, newline terminated
FormatSplat(s) == SplatFields(s)

\* line.encode('utf-8') as handed to f.write
HeaderBytes(l) == [kind |-> "bytes", text |-> l.text, n |-> l.n, data |-> <<>>]

\* line as handed to f.write
HeaderStr(l) == [kind |-> "str", text |-> l.text, n |-> l.n, data |-> <<>>]

\* the argument of the next f.write of the header loop
HeaderChunk(fmt, l) == IF fmt = "binary" THEN HeaderBytes(l) ELSE HeaderStr(l)

\* the argument of the next f.write of the body loop
BodyChunk(fmt, s) ==
    IF fmt = "binary" THEN [kind |-> "bytes", text |-> "", n |-> 0, data |-> PackSplat(s)]
    ELSE [kind |-> "str", text |-> "", n |-> 0, data |-> FormatSplat(s)]

\* f.write(x): a text handle takes str, a binary handle takes bytes, else TypeError
WriteAccepts(mode, kind) ==
    \/ mode = "w" /\ kind = "str"
    \/ mode = "wb" /\ kind = "bytes"

WriteHandler_OSErrorOnly(exc) ==
    IF exc \in {"OSError", "PermissionError", "FileNotFoundError"}
    THEN "An error occurred while writing the file" ELSE "escape"

\* the except clause of write_ply_file; "escape" when it does not match
WriteHandler(exc) ==
    IF IsException(exc) THEN "An error occurred while writing the file" ELSE "escape"

\* an exception inside the try of write_ply_file: the with block closes the handle,
\* the diagnostic is printed, the function returns and the script ends
WriteRaise(exc) ==
    /\ raised' = Append(raised, [fn |-> "write_ply_file", exc |-> exc])
    /\ fmode' = "closed"
    /\ IF WriteHandler(exc) = "escape"
       THEN /\ pc' = "crashed"
            /\ exitCode' = 1
            /\ log' = log
       ELSE /\ pc' = "done"
            /\ exitCode' = 0
            /\ log' = Append(log, Diag(WriteHandler(exc), 0))

\* write_ply_file(read_splats, ...) with an empty list: print and return
WriteEmpty ==
    /\ pc = "write"
    /\ IsEmptyCollection(splats_data)
    /\ log' = Append(log, Diag("No splats found", 0))
    /\ pc' = "done"
    /\ exitCode' = 0
    /\ UNCHANGED <<format, inputKind, outputKind, inBytes, inPos, splats_data,
                   outFile, fmode, opened, wi, raised>>

\* write_ply_file with a non-empty list, up to the open of the output path
WriteOpen ==
    /\ pc = "write"
    /\ ~IsEmptyCollection(splats_data)
    /\ wi' = 1
    /\ IF OpenOutputRaises(outputKind) # ""
       THEN /\ WriteRaise(OpenOutputRaises(outputKind))
            /\ UNCHANGED <<outFile, opened>>
       ELSE /\ outFile' = [exists |-> TRUE, data |-> <<>>]
            /\ opened' = TRUE
            /\ fmode' = OpenMode(format)
            /\ pc' = "header"
            /\ UNCHANGED <<log, raised, exitCode>>
    /\ UNCHANGED <<format, inputKind, outputKind, inBytes, inPos, splats_data>>

\* f.write(x) on the open handle; next is where the run continues when it succeeds
WriteChunk(chunk, nextPc, nextWi) ==
    IF WriteAccepts(fmode, chunk.kind)
    THEN /\ outFile' = [outFile EXCEPT !.data = Append(@, chunk)]
         /\ pc' = nextPc
         /\ wi' = nextWi
         /\ UNCHANGED <<fmode, log, raised, exitCode>>
    ELSE /\ WriteRaise("TypeError")
         /\ UNCHANGED <<outFile, wi>>

\* one iteration of `for line in header_lines` of the branch format selects
WriteHeaderLine ==
    /\ pc = "header"
    /\ LET hl == HeaderLines(format, Len(splats_data))
       IN  WriteChunk(HeaderChunk(format, hl[wi]),
                      IF wi = Len(hl) THEN "body" ELSE "header",
                      IF wi = Len(hl) THEN 1 ELSE wi + 1)
    /\ UNCHANGED <<format, inputKind, outputKind, inBytes, inPos, splats_data, opened>>

\* one iteration of `for splat in splats_data` of the branch format selects
WriteSplat ==
    /\ pc = "body"
    /\ WriteChunk(BodyChunk(format, splats_data[wi]),
                  IF wi = Len(splats_data) THEN "close" ELSE "body",
                  wi + 1)
    /\ UNCHANGED <<format, inputKind, outputKind, inBytes, inPos, splats_data, opened>>

WriteClose_SuccessFirst ==
    /\ pc = "close"
    /\ \E closeFails \in BOOLEAN :
          /\ fmode' = "closed"
          /\ pc' = "done"
          /\ exitCode' = 0
          /\ IF closeFails
             THEN /\ raised' = Append(raised, [fn |-> "write_ply_file", exc |-> "OSError"])
                  /\ log' = log \o <<Diag("Successfully wrote", Len(splats_data)),
                                     Diag(WriteHandler("OSError"), 0)>>
             ELSE /\ raised' = raised
                  /\ log' = Append(log, Diag("Successfully wrote", Len(splats_data)))
    /\ UNCHANGED <<format, inputKind, outputKind, inBytes, inPos, splats_data,
                   outFile, opened, wi>>

\* the with block ends without an exception: the handle is closed, success is printed
WriteClose ==
    /\ pc = "close"
    /\ fmode' = "closed"
    /\ log' = Append(log, Diag("Successfully wrote", Len(splats_data)))
    /\ pc' = "done"
    /\ exitCode' = 0
    /\ UNCHANGED <<format, inputKind, outputKind, inBytes, inPos, splats_data,
                   outFile, opened, wi, raised>>

\* an f.write, or the close that ends the with block, raises (disk full, device error)
WriteFault ==
    /\ pc \in {"header", "body", "close"}
    /\ WriteRaise("OSError")
    /\ UNCHANGED <<format, inputKind, outputKind, inBytes, inPos, splats_data,
                   outFile, opened, wi>>

----------------------------------------------------------------------------
(* Inputs *)

\* little-endian bytes of some float32 values
LE_One == <<0, 0, 128, 63>>
LE_Two == <<0, 0, 0, 64>>
LE_Half == <<0, 0, 0, 63>>
LE_MinusOne == <<0, 0, 128, 191>>
LE_Zero == <<0, 0, 0, 0>>
LE_NaN == <<0, 0, 192, 127>>
LE_Inf == <<0, 0, 128, 127>>

\* a raw record: position, scale, colour, opacity, quaternion
RawRecord(px, py, pz, s0, s1, s2, rgb, o, q) ==
    px \o py \o pz \o s0 \o s1 \o s2 \o rgb \o <<o>> \o q

RecordA(o) ==
    RawRecord(LE_One, LE_Two, LE_MinusOne, LE_One, LE_Half, LE_Two,
              <<0, 128, MaxByte>>, o, <<128, 0, MaxByte, 64>>)

RecordB ==
    RawRecord(LE_Zero, LE_Half, LE_Two, LE_Zero, LE_MinusOne, LE_NaN,
              <<MaxByte, 1, 254>>, MaxByte, <<0, 0, 0, 0>>)

RecordC ==
    RawRecord(LE_MinusOne, LE_MinusOne, LE_One, LE_Inf, LE_One, LE_One,
              <<10, 20, 30>>, 128, <<MaxByte, MaxByte, MaxByte, MaxByte>>)

RawRecords == {RecordA(0), RecordB, RecordC}

RECURSIVE Flatten(_)
Flatten(recs) == IF recs = <<>> THEN <<>> ELSE Head(recs) \o Flatten(Tail(recs))

RecordSeqs(set, maxLen) == UNION {[1..n -> set] : n \in 0..maxLen}

InputFiles ==
    {Flatten(recs) \o [i \in 1..r |-> TrailByte] : recs \in RecordSeqs(RawRecords, MaxRecords),
                                                    r \in TrailLens}

\* a file of one record, for each value of its opacity byte
OpacityFiles == {RecordA(o) : o \in 0..MaxByte}

OldChunk == [kind |-> "bytes", text |-> "old contents", n |-> 0, data |-> <<>>]

InitRun ==
    /\ inPos = 0
    /\ splats_data = <<>>
    /\ fmode = "closed"
    /\ opened = FALSE
    /\ wi = 1
    /\ log = <<>>
    /\ raised = <<>>
    /\ pc = "start"
    /\ exitCode = -1

InitOutput ==
    /\ outputKind \in {"absent", "unwritable", "file"}
    /\ outFile \in {[exists |-> FALSE, data |-> <<>>], [exists |-> TRUE, data |-> <<OldChunk>>]}
    /\ outputKind = "absent" => ~outFile.exists

Init ==
    /\ format \in Formats
    /\ inputKind \in {"absent", "missing", "unreadable", "file"}
    /\ inBytes \in InputFiles
    /\ inputKind # "file" => inBytes = <<>>
    /\ InitOutput
    /\ InitRun

Next ==
    \/ ReadOpen
    \/ ReadStep
    \/ ReadFault
    \/ WriteEmpty
    \/ WriteOpen
    \/ WriteHeaderLine
    \/ WriteSplat
    \/ WriteClose
    \/ WriteFault

Spec == Init /\ [][Next]_vars

\* the script runs to its end: no step is postponed forever
FairSpec == Spec /\ WF_vars(Next)

\* every opacity byte, in a file of one record
InitOpacity ==
    /\ format \in Formats
    /\ inputKind = "file"
    /\ inBytes \in OpacityFiles
    /\ outputKind = "file"
    /\ outFile = [exists |-> FALSE, data |-> <<>>]
    /\ InitRun

SpecOpacity == InitOpacity /\ [][Next]_vars

----------------------------------------------------------------------------
(* Vocabulary of the properties *)

ReadRaised == SelectSeq(raised, LAMBDA e : e.fn = "read_splat_file")

WriteRaised == SelectSeq(raised, LAMBDA e : e.fn = "write_ply_file")

\* an exception the device or the file system raises, as opposed to one the code causes
IsIOFault(e) == e.exc \in {"OSError", "PermissionError"}

ReadDiags ==
    SelectSeq(log, LAMBDA d : d.msg \in {"Error: File not found", "Unexpected error"})

\* what write_ply_file printed
WriteDiags ==
    SelectSeq(log, LAMBDA d : d.msg \in {"No splats found", "Successfully wrote",
                                         "An error occurred while writing the file"})

ErrorDiags == SelectSeq(log, LAMBDA d : d.msg # "Successfully wrote" /\ d.msg # "No splats found")

Reported(m) == \E i \in 1..Len(log) : log[i].msg = m

ReadReturned == pc \notin {"start", "read"}

\* number of complete records of the input file
CompleteRecords == Len(inBytes) \div SPLAT_BYTE_LENGTH

\* the i-th complete record of the input file
InputRecord(i) == SubSeq(inBytes, SPLAT_BYTE_LENGTH * (i - 1) + 1, SPLAT_BYTE_LENGTH * i)

\* the point records of the first n complete records, in file order
Decoded(n) == [i \in 1..n |-> DecodeRecord(InputRecord(i)).splat]

\* the chunks written after the end_header line
Body ==
    IF Len(outFile.data) > Len(HeaderLines(format, 0))
    THEN SubSeq(outFile.data, Len(HeaderLines(format, 0)) + 1, Len(outFile.data))
    ELSE <<>>

RECURSIVE ByteLength(_)
ByteLength(chunks) ==
    IF chunks = <<>> THEN 0 ELSE Len(Head(chunks).data) + ByteLength(Tail(chunks))

\* the file binary mode produces for a collection: binary header, then the packed records
BinaryFile(sd) ==
    [i \in 1..Len(HeaderLines("binary", Len(sd))) |-> HeaderBytes(HeaderLines("binary", Len(sd))[i])]
    \o [i \in 1..Len(sd) |-> [kind |-> "bytes", text |-> "", n |-> 0, data |-> PackSplat(sd[i])]]

----------------------------------------------------------------------------
(* Properties *)

\* C1: for every format selector other than "ascii", write_ply_file on a non-empty
\* collection, with no fault of the output device, writes the binary header
\* ('format binary_little_endian 1.0') and the packed body and reports no error.
C1_NonAsciiWritesBinary ==
    (/\ pc \in {"done", "crashed"}
     /\ format # "ascii"
     /\ splats_data # <<>>
     /\ outputKind = "file"
     /\ \A i \in 1..Len(WriteRaised) : ~IsIOFault(WriteRaised[i]))
    => /\ WriteRaised = <<>>
       /\ ~Reported("An error occurred while writing the file")
       /\ outFile.data = BinaryFile(splats_data)
       /\ outFile.data[2].text = "format binary_little_endian 1.0"

\* C2: when no read of the input device fails, a file of k complete records and
\* r < 32 trailing bytes decodes to exactly k point records, the trailing bytes
\* are consumed and dropped, and nothing is raised or reported.
C2_CompleteRecordsOnly ==
    (/\ ReadReturned
     /\ inputKind = "file"
     /\ \A i \in 1..Len(ReadRaised) : ~IsIOFault(ReadRaised[i]))
    => /\ Len(splats_data) = CompleteRecords
       /\ inPos = Len(inBytes)
       /\ ReadRaised = <<>>
       /\ ReadDiags = <<>>

C2_Witness ==
    /\ pc = "write"
    /\ raised = <<>>
    /\ Len(inBytes) = 2 * SPLAT_BYTE_LENGTH + (SPLAT_BYTE_LENGTH - 1)
    /\ Len(splats_data) = 2

\* C3: in a run without any fault, in ascii or binary mode, the vertices written
\* are exactly the point records of the complete input records, one each, in
\* file order (and none is written when there is no complete record).
C3_VerticesFollowRecords ==
    (/\ pc = "done"
     /\ raised = <<>>
     /\ format \in {"ascii", "binary"})
    => IF CompleteRecords = 0 THEN ~opened
       ELSE /\ Len(Body) = CompleteRecords
            /\ \A i \in 1..CompleteRecords :
                  Body[i].data = (IF format = "binary" THEN PackSplat(Decoded(CompleteRecords)[i])
                                  ELSE FormatSplat(Decoded(CompleteRecords)[i]))

C3_Witness ==
    /\ pc = "done"
    /\ raised = <<>>
    /\ format = "ascii"
    /\ CompleteRecords = 2
    /\ InputRecord(1) # InputRecord(2)
    /\ Len(Body) = 2

\* C4: a call of write_ply_file with an empty collection prints 'No splats found'
\* and returns; the output path is not opened and the file on disk stays as it was.
C4_EmptyLeavesOutputAlone ==
    [][(pc = "write" /\ splats_data = <<>>)
       => /\ log' = Append(log, Diag("No splats found", 0))
          /\ pc' = "done"
          /\ outFile' = outFile
          /\ opened' = opened
          /\ fmode' = "closed"]_vars

C4_Witness ==
    /\ pc = "done"
    /\ splats_data = <<>>
    /\ outputKind = "file"
    /\ outFile = [exists |-> TRUE, data |-> <<OldChunk>>]
    /\ ~opened
    /\ log[Len(log)].msg = "No splats found"

\* C5: after a successful write of N >= 1 records in binary mode, the 'element
\* vertex' line states N and the body after 'end_header' is N * 56 bytes long.
C5_HeaderCountAndBodyLength ==
    (/\ pc = "done"
     /\ format = "binary"
     /\ Reported("Successfully wrote"))
    => /\ Len(splats_data) >= 1
       /\ outFile.data[3].text = "element vertex"
       /\ outFile.data[3].n = Len(splats_data)
       /\ \A i \in 1..Len(outFile.data) : outFile.data[i].text = "element vertex" => i = 3
       /\ outFile.data[Len(outFile.data) - Len(Body)].text = "end_header"
       /\ ByteLength(Body) = Len(splats_data) * 56

C5_Witness ==
    /\ pc = "done"
    /\ format = "binary"
    /\ Reported("Successfully wrote")
    /\ Len(splats_data) = 2
    /\ ByteLength(Body) = 112

\* C6: an exception other than file-not-found raised in read_splat_file at the
\* j-th record is reported as 'Unexpected error' and the function returns the
\* first j-1 point records in file order; the run goes on to write_ply_file.
C6_PartialResultOnError ==
    (/\ ReadReturned
     /\ ReadRaised # <<>>
     /\ ReadRaised[1].exc # "FileNotFoundError")
    => /\ Len(ReadRaised) = 1
       /\ ReadDiags = <<Diag("Unexpected error", 0)>>
       /\ splats_data = Decoded(inPos \div SPLAT_BYTE_LENGTH)
       /\ pc # "crashed"

C6_Witness ==
    /\ pc = "write"
    /\ ReadRaised = <<[fn |-> "read_splat_file", exc |-> "OSError"]>>
    /\ CompleteRecords = 2
    /\ Len(splats_data) = 1
    /\ splats_data = Decoded(1)

\* C7: when the input path names no file, the run is exactly: the decoder prints
\* file-not-found and returns an empty list, then write_ply_file prints 'No
\* splats found', then the process ends with status 0; no step touches the output.
C7_MissingInputRun ==
    [][inputKind = "missing"
       => /\ outFile' = outFile
          /\ opened' = FALSE
          /\ pc \in {"start", "write"}
          /\ pc = "start" => /\ pc' = "write"
                             /\ splats_data' = <<>>
                             /\ log' = <<Diag("Error: File not found", 0)>>
          /\ pc = "write" => /\ pc' = "done"
                             /\ exitCode' = 0
                             /\ log' = <<Diag("Error: File not found", 0),
                                         Diag("No splats found", 0)>>]_vars

C7_Witness ==
    /\ inputKind = "missing"
    /\ pc = "done"
    /\ exitCode = 0
    /\ log = <<Diag("Error: File not found", 0), Diag("No splats found", 0)>>
    /\ outFile = [exists |-> FALSE, data |-> <<>>]

\* C8: no exception leaves read_splat_file or write_ply_file: each one raised has
\* its diagnostic printed, and every run ends normally with exit status 0.
C8_FaultsHandledLocally ==
    /\ [](/\ pc # "crashed"
          /\ exitCode \in {-1, 0}
          /\ Len(ErrorDiags) = Len(raised))
    /\ <>(pc = "done" /\ exitCode = 0)

C8_Witness ==
    /\ pc = "done"
    /\ exitCode = 0
    /\ format = "binary_little_endian"
    /\ raised = <<[fn |-> "read_splat_file", exc |-> "OSError"],
                  [fn |-> "write_ply_file", exc |-> "TypeError"]>>
    /\ Len(log) = 2

\* C9: for every opacity byte o the probability handed to the logit is o/255
\* clamped to [0.0001, 0.9999]: 0.0001 for byte 0, 0.9999 for byte 255, strictly
\* between 0 and 1 always, so the logit raises neither a division by zero nor a
\* domain error.
C9_OpacityClamped ==
    /\ \A i \in 1..Len(splats_data) :
          LET o == InputRecord(i)[28]
              p == splats_data[i].opacity.a
          IN  /\ splats_data[i].opacity.tag = "logit"
              /\ o = 0 => RatEq(p, <<1, 10000>>)
              /\ o = 255 => RatEq(p, <<9999, 10000>>)
              /\ (o # 0 /\ o # 255) => RatEq(p, <<o, 255>>)
              /\ ~RatLess(p, <<1, 10000>>)
              /\ ~RatLess(<<9999, 10000>>, p)
              /\ p[1] > 0
              /\ p[1] < p[2]
    /\ \A i \in 1..Len(raised) : raised[i].exc \notin {"ZeroDivisionError", "ValueError"}

C9_Witness ==
    /\ pc = "done"
    /\ Len(splats_data) = 1
    /\ InputRecord(1)[28] = 255
    /\ splats_data[1].opacity = [tag |-> "logit", a |-> <<9999, 10000>>]

\* C10: a call of write_ply_file prints exactly one outcome: 'No splats found'
\* iff the collection is empty; otherwise 'Successfully wrote N' iff the header
\* and all N records were written and the handle closed without an exception,
\* and the error diagnostic otherwise.
C10_OneOutcomePerCall ==
    /\ Len(WriteDiags) <= 1
    /\ pc = "done" =>
          /\ Len(WriteDiags) = 1
          /\ Reported("No splats found") <=> splats_data = <<>>
          /\ Reported("Successfully wrote") <=>
                (/\ splats_data # <<>>
                 /\ opened
                 /\ Len(outFile.data) = Len(HeaderLines(format, 0)) + Len(splats_data)
                 /\ fmode = "closed"
                 /\ WriteRaised = <<>>)
          /\ Reported("Successfully wrote") => WriteDiags[1].n = Len(splats_data)
          /\ Reported("An error occurred while writing the file") <=>
                (splats_data # <<>> /\ WriteRaised # <<>>)

C10_Witness ==
    /\ pc = "done"
    /\ WriteRaised = <<[fn |-> "write_ply_file", exc |-> "OSError"]>>
    /\ Len(outFile.data) = Len(HeaderLines(format, 0)) + Len(splats_data)
    /\ WriteDiags = <<Diag("An error occurred while writing the file", 0)>>

====
